---- MODULE Spec2Model ----
(***************************************************************************)
(* Model of Forward.ServeDNS (forward.go): the fan-out of one query to     *)
(* every live proxy, the per-proxy retry loop, the join on the WaitGroup   *)
(* and the aggregation of the A/AAAA records of the collected replies.     *)
(***************************************************************************)
EXTENDS Integers, Sequences, FiniteSets, Bags, TLC

(* ----- bounds ----- *)
NumProxies == 2
MaxFails == 2

(* ----- values ----- *)
Proxies == 1..NumProxies

\* a resource record; only its type takes part in the aggregation
RR(t) == [Rrtype |-> t]
\* the answer sections a reply can carry: none, one address record, a record
\* of another type alone and before an address record of the other family,
\* and the same address record twice
Answers == {<<>>, <<RR("A")>>, <<RR("CNAME")>>, <<RR("CNAME"), RR("AAAA")>>,
            <<RR("A"), RR("A")>>}

\* domain names as their labels from the root down; state.Name() is lower
\* case and fully qualified, as are the configured from and ignored
From == <<"zone">>
Names == {<<"zone">>, <<"zone", "a">>, <<"zone", "ign">>, <<"other">>}
\* the configured lists of ignored names: one below the zone, and the zone itself
IgnoredLists == {<< <<"zone", "ign">> >>, << <<"zone">> >>}

\* the request r of the query; only the question takes part in state.Match
Req == [Question |-> "q"]

\* a nil *dns.Msg
NilMsg == [src |-> 0, Question |-> "none", Truncated |-> FALSE, Rcode |-> "nil", Answer |-> <<>>]

\* the replies proxy p can return from Connect
Msgs(p) == [src : {p}, Question : {"q", "other"}, Truncated : BOOLEAN,
            Rcode : {"NOERROR"}, Answer : Answers]

NoErr == [kind |-> "nil", from |-> 0]
ErrCachedClosed == [kind |-> "ErrCachedClosed", from |-> 0]
ErrNoHealthy == [kind |-> "ErrNoHealthy", from |-> 0]
\* any other error returned by proxy p's Connect
UpstreamErr(p) == [kind |-> "upstream", from |-> p]

RcodeSuccess == 0
RcodeServerFailure == 2

\* the (ret, err) pairs a call of proxy.Connect can return; a proxy of the
\* set brk is unreachable for the whole query and every call ends in an error
ConnectResults(p, brk) ==
    IF p \in brk THEN {[ret |-> NilMsg, err |-> UpstreamErr(p)]}
    ELSE {[ret |-> m, err |-> NoErr] : m \in Msgs(p)}
           \cup {[ret |-> NilMsg, err |-> ErrCachedClosed], [ret |-> NilMsg, err |-> UpstreamErr(p)]}

\* ret and err as declared at the head of an iteration
NoResult == [ret |-> NilMsg, err |-> NoErr]

\* the options struct
Options == [forceTCP : BOOLEAN, preferUDP : BOOLEAN]

VARIABLES
    maxfails,    \* f.maxfails
    opts,        \* f.opts
    ignored,     \* f.ignored
    qname,       \* state.Name() of the query
    hasSpan,     \* ot.SpanFromContext(ctx) != nil
    broken,      \* the proxies that answer no Connect of this query
    pc,          \* position of ServeDNS: "start", "wait", "done", or "next" after plugin.NextOrFailure
    live,        \* the proxies of f.List() that were not down
    wg,          \* counter of the WaitGroup
    ch,          \* the buffered channel of fwdResp, in arrival order
    chCap,       \* capacity of ch
    chClosed,    \* close(ch) was called
    resps,       \* the responses read from ch
    w,           \* the messages written with w.WriteMsg
    rcode,       \* returned int
    rerr,        \* returned error
    wpc,         \* position of each goroutine: "idle", "loop", "connect", "done"
    fails,       \* local fails of each goroutine
    wopts,       \* local opts of each goroutine
    ctxInner,    \* local ctxInner of each goroutine
    last,        \* local ret and err of each goroutine: the result of its latest Connect
    attempts,    \* history: iterations of the outer loop each goroutine began
    probes,      \* history: calls of proxy.Healthcheck by each goroutine
    esc,         \* history: truncation retries within the current iteration
    pushed,      \* history: number of sends on ch by each goroutine
    connects,    \* history: the (proxy, context) pairs of all Connect calls
    downSeen,    \* history: proxy.Down was true after a failed Connect of the goroutine
    downAtList   \* history: the proxies whose Down was true when live was computed

wvars == <<wpc, fails, wopts, ctxInner, last>>
hvars == <<attempts, probes, esc, pushed, connects, downSeen, downAtList>>
cvars == <<pc, live, wg, ch, chCap, chClosed, resps, w, rcode, rerr>>
fvars == <<maxfails, opts, ignored>>
qvars == <<qname, hasSpan, broken>>
vars == <<fvars, qvars, cvars, wvars, hvars>>

(* ----- pure parts of the code ----- *)

\* plugin.Name(zone).Matches(name): name is zone or lies below it
Matches(zone, name) ==
    Len(zone) <= Len(name) /\ SubSeq(name, 1, Len(zone)) = zone

\* variant: the ignored names are tested for the zone itself too
isAllowedDomainNoApex(name, ign) ==
    \A i \in DOMAIN ign : ~Matches(ign[i], name)

\* f.isAllowedDomain(name)
isAllowedDomain(name, ign) ==
    \/ name = From
    \/ \A i \in DOMAIN ign : ~Matches(ign[i], name)

\* f.match(state)
match(name, ign) ==
    ~(~Matches(From, name) \/ ~isAllowedDomain(name, ign))

\* variant: ch is made without a buffer
ChanCapUnbuffered(n) == 0

\* make(chan fwdResp, len(live))
ChanCap(n) == n

\* variant: the options of all goroutines are one shared value
SetForceTCPShared(all, p) == [q \in DOMAIN all |-> [all[q] EXCEPT !.forceTCP = TRUE]]

\* opts.forceTCP = true in the goroutine of p
SetForceTCP(all, p) == [all EXCEPT ![p].forceTCP = TRUE]

\* variant: every reply is taken to match the request
MatchAny(m) == TRUE

\* state.Match(ret)
Match(m) == m.Question = Req.Question

\* formerr.SetRcode(state.Req, dns.RcodeFormatError)
FormErr == [src |-> 0, Question |-> Req.Question, Truncated |-> FALSE, Rcode |-> "FORMERR", Answer |-> <<>>]

\* variant: the live list without the test of Down
LiveAll(list, down) == list

\* the live list: every proxy of the list whose Down(maxfails) is false
Live(list, down) == {p \in list : p \notin down}

\* variant: the outer loop runs once more
LoopCondLe(f, mf) == f <= mf

\* condition of the outer loop
LoopCond(f, mf) == f < mf

\* ctxInner as assigned at the head of an iteration
CtxOfIteration(span, prev) == IF span THEN "ctxWithSpan" ELSE prev

\* variant: the truncation retry without the test of forceTCP
TruncRetryAlways(m, o) == m # NilMsg /\ m.Truncated /\ o.preferUDP

\* retry with TCP if truncated and prefer_udp configured
TruncRetry(m, o) == m # NilMsg /\ m.Truncated /\ ~o.forceTCP /\ o.preferUDP

\* variant: the test of maxfails before proxy.Healthcheck() is inverted
ProbeCountIfZero(n, mf) == IF mf = 0 THEN n + 1 ELSE n

\* Healthcheck is kicked off only when maxfails is not 0
ProbeCount(n, mf) == IF mf # 0 THEN n + 1 ELSE n

\* variant: no wait for the goroutines
WaitReturnsEarly(n) == TRUE

\* wg.Wait() returns
WaitReturns(n) == n = 0

IsAddr(rr) == rr.Rrtype = "A" \/ rr.Rrtype = "AAAA"

IsA(rr) == rr.Rrtype = "A"

\* variant: the switch without the case of dns.TypeAAAA
AddrRecordsOnlyA(answer) == SelectSeq(answer, IsA)

\* the records of one answer section the switch appends to ipAnswers
AddrRecords(answer) == SelectSeq(answer, IsAddr)

\* variant: no record is collected once a response carries an error
IpAnswersUnlessErr(rs) ==
    IF \E i \in DOMAIN rs : rs[i].upstreamErr # NoErr THEN <<>>
    ELSE LET F[i \in 0..Len(rs)] ==
                 IF i = 0 THEN <<>>
                 ELSE F[i - 1] \o (IF rs[i].ret = NilMsg THEN <<>> ELSE SelectSeq(rs[i].ret.Answer, IsAddr))
         IN F[Len(rs)]

RECURSIVE IpAnswers(_)
\* ipAnswers after the loop over resps
IpAnswers(rs) ==
    IF rs = <<>> THEN <<>>
    ELSE LET r == Head(rs) IN
         (IF r.ret = NilMsg THEN <<>> ELSE AddrRecords(r.ret.Answer)) \o IpAnswers(Tail(rs))

\* variant: successRet is set for every response that has a reply
SuccessRetAny(rs) ==
    IF \E i \in DOMAIN rs : rs[i].ret # NilMsg
    THEN rs[CHOOSE i \in DOMAIN rs : rs[i].ret # NilMsg /\ \A j \in (i + 1)..Len(rs) : rs[j].ret = NilMsg].ret
    ELSE NilMsg

RECURSIVE SuccessRet(_)
\* successRet after the loop over resps: the last response that gave a record
SuccessRet(rs) ==
    IF rs = <<>> THEN NilMsg
    ELSE LET r == rs[Len(rs)] IN
         IF r.ret # NilMsg /\ AddrRecords(r.ret.Answer) # <<>> THEN r.ret
         ELSE SuccessRet(SubSeq(rs, 1, Len(rs) - 1))

\* variant: the second loop keeps the last upstream error instead of returning
\* at the first
FirstUpstreamErrLast(rs) ==
    IF \E i \in DOMAIN rs : rs[i].upstreamErr # NoErr
    THEN rs[CHOOSE i \in DOMAIN rs : rs[i].upstreamErr # NoErr /\ \A j \in (i + 1)..Len(rs) : rs[j].upstreamErr = NoErr].upstreamErr
    ELSE ErrNoHealthy

\* variant: a nil error when no response carries one
FirstUpstreamErrOrNil(rs) ==
    IF \E i \in DOMAIN rs : rs[i].upstreamErr # NoErr
    THEN rs[CHOOSE i \in DOMAIN rs : rs[i].upstreamErr # NoErr /\ \A j \in 1..(i - 1) : rs[j].upstreamErr = NoErr].upstreamErr
    ELSE NoErr

RECURSIVE FirstUpstreamErr(_)
\* the error returned by the second loop over resps
FirstUpstreamErr(rs) ==
    IF rs = <<>> THEN ErrNoHealthy
    ELSE IF Head(rs).upstreamErr # NoErr THEN Head(rs).upstreamErr
    ELSE FirstUpstreamErr(Tail(rs))

\* whether ServeDNS writes the aggregated reply
HasAnswers(ip) == Len(ip) > 0

(* ----- initial state ----- *)

Init ==
    /\ maxfails \in 0..MaxFails
    /\ opts \in Options
    /\ ignored \in IgnoredLists
    /\ qname \in Names
    /\ hasSpan \in BOOLEAN
    /\ broken \in SUBSET Proxies
    /\ pc = "start"
    /\ live = {}
    /\ wg = 0
    /\ ch = <<>>
    /\ chCap = 0
    /\ chClosed = FALSE
    /\ resps = <<>>
    /\ w = <<>>
    /\ rcode = RcodeSuccess
    /\ rerr = NoErr
    /\ wpc = [p \in Proxies |-> "idle"]
    /\ fails = [p \in Proxies |-> 0]
    /\ wopts = [p \in Proxies |-> opts]
    /\ ctxInner = [p \in Proxies |-> "nil"]
    /\ last = [p \in Proxies |-> NoResult]
    /\ attempts = [p \in Proxies |-> 0]
    /\ probes = [p \in Proxies |-> 0]
    /\ esc = [p \in Proxies |-> 0]
    /\ pushed = [p \in Proxies |-> 0]
    /\ connects = {}
    /\ downSeen = [p \in Proxies |-> FALSE]
    /\ downAtList = {}

(* ----- ServeDNS up to the start of the goroutines ----- *)

\* the query is not matched: plugin.NextOrFailure takes it
NextHandler ==
    /\ pc = "start"
    /\ ~match(qname, ignored)
    /\ pc' = "next"
    /\ UNCHANGED <<fvars, qvars, live, wg, ch, chCap, chClosed, resps, w, rcode, rerr>>
    /\ UNCHANGED <<wvars, hvars>>

\* list := f.List(); live := the proxies not down; one goroutine per live proxy
Dispatch ==
    /\ pc = "start"
    /\ match(qname, ignored)
    /\ \E down \in SUBSET Proxies :
         /\ live' = Live(Proxies, down)
         /\ downAtList' = down
    /\ wg' = Cardinality(live')
    /\ chCap' = ChanCap(Cardinality(live'))
    /\ wpc' = [p \in Proxies |-> IF p \in live' THEN "loop" ELSE "idle"]
    /\ pc' = "wait"
    /\ UNCHANGED <<fvars, qvars, ch, chClosed, resps, w, rcode, rerr>>
    /\ UNCHANGED <<fails, wopts, ctxInner, last>>
    /\ UNCHANGED <<attempts, probes, esc, pushed, connects, downSeen>>

(* ----- the goroutine of proxy p ----- *)

\* the head of the outer loop: test fails < f.maxfails, then set up the iteration
Loop(p) ==
    /\ wpc[p] = "loop"
    /\ IF LoopCond(fails[p], maxfails)
       THEN /\ ctxInner' = [ctxInner EXCEPT ![p] = CtxOfIteration(hasSpan, @)]
            /\ wopts' = [wopts EXCEPT ![p] = opts]
            /\ last' = [last EXCEPT ![p] = NoResult]
            /\ esc' = [esc EXCEPT ![p] = 0]
            /\ attempts' = [attempts EXCEPT ![p] = @ + 1]
            /\ wpc' = [wpc EXCEPT ![p] = "connect"]
            /\ UNCHANGED wg
       ELSE /\ wpc' = [wpc EXCEPT ![p] = "done"]
            /\ wg' = wg - 1
            /\ UNCHANGED <<ctxInner, wopts, last, esc, attempts>>
    /\ UNCHANGED <<fvars, qvars, pc, live, ch, chCap, chClosed, resps, w, rcode, rerr>>
    /\ UNCHANGED <<fails, probes, pushed, connects, downSeen, downAtList>>

\* the goroutine ends after the send of resp on ch; the send waits while ch
\* is full
Push(p, resp) ==
    /\ Len(ch) < chCap
    /\ ch' = Append(ch, resp)
    /\ pushed' = [pushed EXCEPT ![p] = @ + 1]
    /\ wpc' = [wpc EXCEPT ![p] = "done"]
    /\ wg' = wg - 1

\* one call of proxy.Connect and what the goroutine does with its result, up
\* to the next call of Connect, the next test of the outer loop, or the exit.
\* proxy.Down reads a counter that the health checks of the proxy change
\* concurrently: its result is either value.
Connect(p) ==
    /\ wpc[p] = "connect"
    /\ \E res \in ConnectResults(p, broken) :
         /\ connects' = connects \cup {<<p, ctxInner[p]>>}
         /\ last' = [last EXCEPT ![p] = res]
         /\ IF res.err = ErrCachedClosed
            THEN UNCHANGED <<wopts, esc, probes, fails, ch, pushed, wpc, wg, downSeen>>
            ELSE IF TruncRetry(res.ret, wopts[p])
            THEN /\ wopts' = SetForceTCP(wopts, p)
                 /\ esc' = [esc EXCEPT ![p] = @ + 1]
                 /\ UNCHANGED <<probes, fails, ch, pushed, wpc, wg, downSeen>>
            ELSE IF res.err # NoErr
            THEN /\ probes' = [probes EXCEPT ![p] = ProbeCount(@, maxfails)]
                 /\ fails' = [fails EXCEPT ![p] = @ + 1]
                 /\ \E down \in BOOLEAN :
                      /\ downSeen' = [downSeen EXCEPT ![p] = down]
                      /\ IF ~down
                         THEN /\ wpc' = [wpc EXCEPT ![p] = "loop"]
                              /\ UNCHANGED <<ch, pushed, wg>>
                         ELSE Push(p, [ret |-> NilMsg, code |-> 0, upstreamErr |-> res.err])
                 /\ UNCHANGED <<wopts, esc>>
            ELSE IF ~Match(res.ret)
            THEN /\ Push(p, [ret |-> FormErr, code |-> 0, upstreamErr |-> NoErr])
                 /\ UNCHANGED <<wopts, esc, probes, fails, downSeen>>
            ELSE /\ Push(p, [ret |-> res.ret, code |-> 0, upstreamErr |-> NoErr])
                 /\ UNCHANGED <<wopts, esc, probes, fails, downSeen>>
    /\ UNCHANGED <<fvars, qvars, pc, live, chCap, chClosed, resps, w, rcode, rerr>>
    /\ UNCHANGED <<ctxInner, attempts, downAtList>>

(* ----- ServeDNS after the goroutines ----- *)

\* wg.Wait(); close(ch); resps := everything read from ch; then the two loops
\* over resps, the write of the reply and the return
Collect ==
    /\ pc = "wait"
    /\ WaitReturns(wg)
    /\ chClosed' = TRUE
    /\ resps' = ch
    /\ ch' = <<>>
    /\ LET ipAnswers == IpAnswers(resps')
           successRet == SuccessRet(resps')
       IN IF HasAnswers(ipAnswers)
          THEN /\ w' = Append(w, [successRet EXCEPT !.Answer = ipAnswers])
               /\ rcode' = RcodeSuccess
               /\ rerr' = NoErr
          ELSE /\ w' = w
               /\ rcode' = RcodeServerFailure
               /\ rerr' = FirstUpstreamErr(resps')
    /\ pc' = "done"
    /\ UNCHANGED <<fvars, qvars, live, wg, chCap>>
    /\ UNCHANGED <<wvars, hvars>>

\* the next call of ServeDNS on the same Forward, after the one before has
\* returned: a new request and context, new locals
NewQuery ==
    /\ pc \in {"done", "next"}
    /\ qname' \in Names
    /\ hasSpan' \in BOOLEAN
    /\ broken' \in SUBSET Proxies
    /\ pc' = "start"
    /\ live' = {}
    /\ wg' = 0
    /\ ch' = <<>>
    /\ chCap' = 0
    /\ chClosed' = FALSE
    /\ resps' = <<>>
    /\ w' = <<>>
    /\ rcode' = RcodeSuccess
    /\ rerr' = NoErr
    /\ wpc' = [p \in Proxies |-> "idle"]
    /\ fails' = [p \in Proxies |-> 0]
    /\ wopts' = [p \in Proxies |-> opts]
    /\ ctxInner' = [p \in Proxies |-> "nil"]
    /\ last' = [p \in Proxies |-> NoResult]
    /\ attempts' = [p \in Proxies |-> 0]
    /\ probes' = [p \in Proxies |-> 0]
    /\ esc' = [p \in Proxies |-> 0]
    /\ pushed' = [p \in Proxies |-> 0]
    /\ connects' = {}
    /\ downSeen' = [p \in Proxies |-> FALSE]
    /\ downAtList' = {}
    /\ UNCHANGED fvars

Next ==
    \/ NextHandler
    \/ Dispatch
    \/ \E p \in Proxies : Loop(p)
    \/ \E p \in Proxies : Connect(p)
    \/ Collect
    \/ NewQuery

Spec == Init /\ [][Next]_vars

\* a step of one call of ServeDNS or of one of its goroutines
ServeStep ==
    \/ NextHandler
    \/ Dispatch
    \/ \E p \in Proxies : Loop(p) \/ Connect(p)
    \/ Collect

\* Spec with the scheduling of the Go runtime: while ServeDNS or one of its
\* goroutines can take a step that changes the state, one is taken; a
\* pending Connect returns, and not with ErrCachedClosed for ever
FairSpec == Spec /\ WF_vars(ServeStep)

(* ----- vocabulary of the properties ----- *)

Done(p) == wpc[p] = "done"

\* the latest Connect of p gave a reply without error
GotReply(p) == last[p].err = NoErr /\ last[p].ret # NilMsg

\* p ended with a reply that correlates with the request
Succeeded(p) == p \in live /\ Done(p) /\ GotReply(p) /\ last[p].ret.Question = Req.Question

\* p ended with a reply that does not correlate with the request
Mismatched(p) == p \in live /\ Done(p) /\ GotReply(p) /\ last[p].ret.Question # Req.Question

IsAddressRR(rr) == rr.Rrtype \in {"A", "AAAA"}

BagOfSeq(sq) == [x \in {sq[i] : i \in DOMAIN sq} |-> Cardinality({i \in DOMAIN sq : sq[i] = x})]

\* the address records of the reply p ended with
AddressBag(p) == BagOfSeq(SelectSeq(last[p].ret.Answer, IsAddressRR))

RECURSIVE AddressBagOf(_)
\* the address records of the replies of the proxies of S, with multiplicity
AddressBagOf(S) ==
    IF S = {} THEN EmptyBag
    ELSE LET x == CHOOSE y \in S : TRUE IN AddressBag(x) (+) AddressBagOf(S \ {x})

\* the address records of all replies that matched the query
SuccessAddressBag == AddressBagOf({p \in Proxies : Succeeded(p)})

Returned == pc = "done"

(* ----- C1 ----- *)

\* C1: whenever ServeDNS has written a reply, the answer section of that reply
\* holds exactly the A and AAAA records of the replies that matched the query,
\* each as many times as it was returned, whatever the order of arrival on ch.
C1_AggregationComplete ==
    (Returned /\ w # <<>>) => BagOfSeq(w[1].Answer) = SuccessAddressBag

\* proxy 2 arrived before proxy 1; a CNAME is left out and the A record that
\* was returned twice is written twice
C1_Witness ==
    /\ Returned /\ Len(w) = 1 /\ Len(resps) = 2
    /\ resps[1].ret.src = 2 /\ resps[2].ret.src = 1
    /\ Succeeded(1) /\ Succeeded(2)
    /\ last[1].ret.Answer = <<RR("CNAME"), RR("AAAA")>>
    /\ last[2].ret.Answer = <<RR("A"), RR("A")>>
    /\ w[1].Answer = <<RR("A"), RR("A"), RR("AAAA")>>

(* ----- C2 ----- *)

\* C2: when a live proxy fails every Connect while another live proxy ends
\* with a matching reply that carries an address record, ServeDNS writes one
\* reply that holds the address records of every matching reply and returns
\* (0, nil); the response of each successful goroutine is among resps as sent.
C2_FailureIsolation ==
    (/\ Returned
     /\ \E p \in live : p \in broken
     /\ \E q \in live : Succeeded(q) /\ AddressBag(q) # EmptyBag)
    => /\ Len(w) = 1 /\ rcode = RcodeSuccess /\ rerr = NoErr
       /\ \A q \in live : Succeeded(q) =>
             /\ AddressBag(q) \sqsubseteq BagOfSeq(w[1].Answer)
             /\ \E i \in DOMAIN resps :
                   resps[i] = [ret |-> last[q].ret, code |-> 0, upstreamErr |-> NoErr]

\* proxy 1 failed maxfails times and pushed its error, proxy 2 answered
C2_Witness ==
    /\ Returned /\ live = {1, 2} /\ 1 \in broken
    /\ fails[1] = 2 /\ pushed[1] = 1 /\ last[1].err = UpstreamErr(1)
    /\ Succeeded(2) /\ last[2].ret.Answer = <<RR("A")>>
    /\ Len(w) = 1 /\ w[1].Answer = <<RR("A")>> /\ rcode = RcodeSuccess /\ rerr = NoErr

(* ----- C3 ----- *)

\* C3: ServeDNS never writes more than one reply and writes none before it
\* returns; it returns (0, nil) exactly when it has written one reply, and
\* otherwise returns the server-failure rcode with a non-nil error.
C3_ResultContract ==
    /\ Len(w) <= 1
    /\ ~Returned => w = <<>>
    /\ Returned =>
          /\ (rcode = RcodeSuccess /\ rerr = NoErr) <=> (Len(w) = 1)
          /\ Len(w) # 1 => (w = <<>> /\ rcode = RcodeServerFailure /\ rerr # NoErr)

\* a query that ends without a reply although both goroutines pushed a response
C3_Witness ==
    /\ Returned /\ w = <<>> /\ Len(resps) = 2
    /\ rcode = RcodeServerFailure /\ rerr = ErrNoHealthy

(* ----- C4 ----- *)

\* C4: the goroutines are exactly the proxies that were not down when the
\* live list was computed and no Connect goes to a proxy that was down then;
\* when every proxy was down, ServeDNS returns server-failure with
\* ErrNoHealthy, writes nothing, starts no goroutine and makes no Connect.
C4_Exhaustion ==
    /\ pc \in {"wait", "done"} =>
          /\ live = Proxies \ downAtList
          /\ \A p \in Proxies : wpc[p] # "idle" <=> p \in live
          /\ \A c \in connects : c[1] \notin downAtList
    /\ (Returned /\ downAtList = Proxies) =>
          /\ rcode = RcodeServerFailure /\ rerr = ErrNoHealthy /\ w = <<>>
          /\ connects = {} /\ \A p \in Proxies : wpc[p] = "idle" /\ pushed[p] = 0

\* every proxy was down at the dispatch and the query has returned
C4_Witness ==
    /\ Returned /\ downAtList = Proxies /\ live = {}
    /\ rerr = ErrNoHealthy /\ rcode = RcodeServerFailure

\* one proxy was down at the dispatch, the other one was asked
C4_WitnessPartial ==
    /\ Returned /\ downAtList = {1} /\ live = {2} /\ connects # {}

(* ----- C5 ----- *)

C5_WitnessFull ==
    /\ maxfails = 2 /\ 1 \in live /\ 1 \in broken /\ Done(1)
    /\ attempts[1] = 2 /\ fails[1] = 2 /\ ~downSeen[1]

(* ----- C6 ----- *)

\* C6: every goroutine that has ended has sent exactly one response on ch, so
\* after the join resps holds one response for each live proxy.
C6_ExactlyOneOutcome ==
    /\ \A p \in live : Done(p) => pushed[p] = 1
    /\ Returned => Len(resps) = Cardinality(live)

(* ----- C7 ----- *)

\* the goroutine of p has just got the result of a Connect
ConnectReturned(p) ==
    /\ wpc[p] = "connect"
    /\ last'[p] # last[p] \/ wpc'[p] # wpc[p] \/ wopts'[p] # wopts[p]

\* the truncation retry applies to reply m under the options o
Escalates(m, o) == m.Truncated /\ ~o.forceTCP /\ o.preferUDP

C7_Step ==
    \A p \in Proxies :
        (/\ ConnectReturned(p)
         /\ last'[p].err = NoErr /\ last'[p].ret # NilMsg
         /\ last'[p].ret.Question # Req.Question
         /\ ~Escalates(last'[p].ret, wopts[p]))
        => /\ wpc'[p] = "done"
           /\ pushed'[p] = pushed[p] + 1
           /\ Len(ch') = Len(ch) + 1
           /\ LET resp == ch'[Len(ch')] IN
                /\ resp.upstreamErr = NoErr
                /\ resp.ret.Rcode = "FORMERR"
                /\ resp.ret.Question = Req.Question
                /\ resp.ret.Answer = <<>>
           /\ fails'[p] = fails[p]
           /\ probes'[p] = probes[p]
           /\ attempts'[p] = attempts[p]

C7_NoMismatchedRecord ==
    Returned =>
        /\ w # <<>> => BagOfSeq(w[1].Answer) \sqsubseteq SuccessAddressBag
        /\ (\A p \in Proxies : Succeeded(p) => AddressBag(p) = EmptyBag) => w = <<>>

C8_Step ==
    \A p \in Proxies :
        (ConnectReturned(p) /\ last'[p].ret # NilMsg /\ last'[p].ret.Truncated)
        => IF ~wopts[p].forceTCP /\ wopts[p].preferUDP
           THEN /\ wopts'[p] = [forceTCP |-> TRUE, preferUDP |-> TRUE]
                /\ wpc'[p] = "connect"
                /\ esc'[p] = esc[p] + 1
                /\ fails'[p] = fails[p] /\ probes'[p] = probes[p]
                /\ attempts'[p] = attempts[p]
                /\ ch' = ch
           ELSE /\ wopts'[p] = wopts[p]
                /\ esc'[p] = esc[p]
                /\ wpc'[p] = "done"
                /\ Len(ch') = Len(ch) + 1
                /\ fails'[p] = fails[p] /\ probes'[p] = probes[p]

C8_AtMostOneEscalation ==
    \A p \in Proxies :
        /\ esc[p] <= 1
        /\ esc[p] = 1 => (wopts[p].forceTCP /\ ~opts.forceTCP /\ opts.preferUDP)

\* C8: a truncated reply received with forceTCP false and preferUDP true makes
\* the goroutine set forceTCP in its own options and call Connect again, with
\* fails and the health probes unchanged; this happens at most once in an
\* iteration of the outer loop, and a truncated reply received with forceTCP
\* true or preferUDP false ends the goroutine with that reply as its result.
C8_TruncationEscalation == [][C8_Step]_vars /\ []C8_AtMostOneEscalation

\* the reply was truncated again after the one retry and was taken as the result
C8_Witness ==
    /\ 1 \in live /\ Done(1) /\ esc[1] = 1 /\ wopts[1].forceTCP /\ ~opts.forceTCP
    /\ Succeeded(1) /\ last[1].ret.Truncated
    /\ attempts[1] = 1 /\ fails[1] = 0 /\ probes[1] = 0 /\ pushed[1] = 1

(* ----- C9 ----- *)

\* C9: ch is closed and read, the reply is written and ServeDNS returns only
\* when every goroutine started for the query has ended; wg counts the
\* goroutines that have not ended.
C9_JoinBarrier ==
    /\ (Returned \/ chClosed \/ resps # <<>> \/ w # <<>>) => \A p \in live : Done(p)
    /\ pc # "start" => wg = Cardinality({p \in live : ~Done(p)})

\* proxy 1 has succeeded with an address record, proxy 2 is still running,
\* and nothing has been read or written
C9_Witness ==
    /\ pc = "wait" /\ live = {1, 2}
    /\ Succeeded(1) /\ AddressBag(1) # EmptyBag
    /\ wpc[2] = "connect" /\ fails[2] = 1
    /\ w = <<>> /\ ~chClosed /\ resps = <<>>

(* ----- C10 ----- *)

\* C10: every Connect is given the context of the caller or a context
\* derived from it, with or without a tracing span in that context.
C10_ContextPropagated ==
    \A c \in connects : c[2] \in {"ctx", "ctxWithSpan"}

(* ----- C11 ----- *)

\* a collected response that reports a failed upstream
TransportFailure(r) == r.ret = NilMsg /\ r.upstreamErr # NoErr

\* a collected response that is the format-error reply of a mismatch
MalformedTerminal(r) == r.ret # NilMsg /\ r.ret.Rcode = "FORMERR" /\ r.upstreamErr = NoErr

\* a collected response that is a reply of the upstream without A or AAAA record
SuccessWithoutAddress(r) ==
    /\ r.ret # NilMsg /\ r.ret.Rcode # "FORMERR" /\ r.upstreamErr = NoErr
    /\ SelectSeq(r.ret.Answer, IsAddressRR) = <<>>

\* no collected response carries an A or AAAA record
NoAddressCollected ==
    \A i \in DOMAIN resps : SelectSeq(resps[i].ret.Answer, IsAddressRR) = <<>>

\* C11: when ServeDNS has returned and no collected response carries an A or
\* AAAA record, the result is server-failure without a reply; its error is the
\* error of the first collected transport failure when there is one, and
\* ErrNoHealthy exactly when there is none, in which case every collected
\* response is a format-error reply or a reply without address record (none
\* at all when the live list was empty).
C11_ErrorFallback ==
    (Returned /\ NoAddressCollected) =>
        /\ w = <<>> /\ rcode = RcodeServerFailure
        /\ (\E i \in DOMAIN resps : TransportFailure(resps[i])) =>
              \E i \in DOMAIN resps :
                  /\ TransportFailure(resps[i])
                  /\ \A j \in 1..(i - 1) : ~TransportFailure(resps[j])
                  /\ rerr = resps[i].upstreamErr
        /\ (rerr = ErrNoHealthy) <=> (\A i \in DOMAIN resps : ~TransportFailure(resps[i]))
        /\ (rerr = ErrNoHealthy) =>
              /\ \A i \in DOMAIN resps : MalformedTerminal(resps[i]) \/ SuccessWithoutAddress(resps[i])
              /\ live = {} => resps = <<>>

\* two transport failures were collected, that of proxy 2 first, and the
\* error of proxy 2 is the one returned
C11_Witness ==
    /\ Returned /\ Len(resps) = 2
    /\ TransportFailure(resps[1]) /\ TransportFailure(resps[2])
    /\ resps[1].upstreamErr = UpstreamErr(2) /\ resps[2].upstreamErr = UpstreamErr(1)
    /\ rerr = UpstreamErr(2)

\* a format-error reply and a reply without address record: ErrNoHealthy
C11_WitnessNoHealthy ==
    /\ Returned /\ Len(resps) = 2
    /\ MalformedTerminal(resps[1]) /\ SuccessWithoutAddress(resps[2])
    /\ rerr = ErrNoHealthy

(* ----- C12 ----- *)

\* name is zone or a name below it: zone is what is left of name after some
\* labels are taken off its lower end
FallsUnder(zone, name) == \E k \in 0..Len(name) : SubSeq(name, 1, k) = zone

\* the query is one the plugin has to process
Admitted ==
    /\ FallsUnder(From, qname)
    /\ qname = From \/ ~\E i \in DOMAIN ignored : FallsUnder(ignored[i], qname)

\* C12: once ServeDNS has decided, the query is processed by this plugin if
\* and only if its name falls under from and either is from itself or falls
\* under none of the ignored names (so from itself is processed even when an
\* ignored name covers it); every other query is in the hands of the next
\* handler, with no goroutine started, no Connect made, no response queued
\* and no reply written.
C12_Admission ==
    /\ pc \in {"wait", "done"} => Admitted
    /\ pc = "next" => ~Admitted
    /\ (pc # "start" /\ qname = From) => pc \in {"wait", "done"}
    /\ pc = "next" =>
          /\ live = {} /\ wg = 0
          /\ \A p \in Proxies : wpc[p] = "idle" /\ attempts[p] = 0 /\ pushed[p] = 0
          /\ connects = {}
          /\ ch = <<>> /\ resps = <<>> /\ w = <<>>

\* a query for from itself was answered although the ignored names cover from
C12_Witness ==
    /\ qname = From /\ ignored = << From >>
    /\ Returned /\ Len(w) = 1

\* a query below an ignored name went to the next handler
C12_WitnessRejected ==
    /\ qname = <<"zone", "ign">> /\ ignored = << <<"zone", "ign">> >>
    /\ pc = "next"

\* a query outside from went to the next handler
C12_WitnessOutside ==
    /\ qname = <<"other">> /\ pc = "next"

(* ----- C13 ----- *)

\* C13: a goroutine that has ended after a Connect error with its failure
\* count at maxfails has sent one response, which carries that error; and when
\* every live proxy fails each of its Connects (each made at least one),
\* ServeDNS returns server-failure with the error of one of these proxies.
C13_FailedTerminal ==
    /\ \A p \in live :
          (Done(p) /\ last[p].err = UpstreamErr(p) /\ fails[p] = maxfails) =>
              /\ pushed[p] = 1
              /\ \E i \in DOMAIN (ch \o resps) : (ch \o resps)[i].upstreamErr = last[p].err
    /\ (Returned /\ live # {} /\ live \subseteq broken /\ \A p \in live : attempts[p] >= 1) =>
          /\ rcode = RcodeServerFailure
          /\ rerr \in {UpstreamErr(p) : p \in live}

(* ----- C14 ----- *)

\* the goroutine of p has ended and its last Connect returned an error
Failed(p) == p \in live /\ Done(p) /\ last[p].err = UpstreamErr(p)

\* C14: when ServeDNS has returned, some proxy answered the question and no
\* such answer has an A or AAAA record, no reply is written and the result is
\* server-failure, with the error of a failed goroutine when there is one
\* and with ErrNoHealthy otherwise.
C14_ZeroAddressQuirk ==
    (/\ Returned
     /\ \E p \in Proxies : Succeeded(p)
     /\ \A p \in Proxies : Succeeded(p) => AddressBag(p) = EmptyBag) =>
        /\ w = <<>> /\ rcode = RcodeServerFailure
        /\ IF \E p \in Proxies : Failed(p)
           THEN rerr \in {UpstreamErr(p) : p \in {q \in Proxies : Failed(q)}}
           ELSE rerr = ErrNoHealthy

(* ----- C15 ----- *)

\* C15, steps: a Connect that returns ErrCachedClosed leaves the goroutine
\* at the Connect with its options, failure count, probes and iteration as
\* they were and sends nothing; a Connect that returns another error adds one
\* to the failure count and starts one health check; a Connect that returns a
\* reply (answer, mismatch or truncated) starts none; nothing else starts a
\* health check, and a Connect of p touches no count of another proxy.
C15_Step ==
    /\ \A p \in Proxies : ConnectReturned(p) =>
          /\ last'[p].err = ErrCachedClosed =>
                /\ wpc'[p] = "connect" /\ wopts' = wopts
                /\ fails' = fails /\ probes' = probes
                /\ attempts' = attempts /\ esc' = esc /\ ch' = ch
          /\ last'[p].err = UpstreamErr(p) =>
                fails'[p] = fails[p] + 1 /\ probes'[p] = probes[p] + 1
          /\ last'[p].err = NoErr =>
                fails'[p] = fails[p] /\ probes'[p] = probes[p]
          /\ \A q \in Proxies \ {p} : fails'[q] = fails[q] /\ probes'[q] = probes[q]
    /\ \A p \in Proxies : probes'[p] > probes[p] =>
          ConnectReturned(p) /\ last'[p].err = UpstreamErr(p)

\* C15, states: the health checks started for a proxy are as many as its
\* counted failures
C15_ProbePerFailure == \A p \in Proxies : probes[p] = fails[p]

C16_Step ==
    /\ opts' = opts
    /\ \A p \in Proxies : wopts'[p] # wopts[p] =>
          \/ wopts'[p] = opts
          \/ /\ ConnectReturned(p) /\ esc'[p] = esc[p] + 1
             /\ wopts'[p] = [wopts[p] EXCEPT !.forceTCP = TRUE]
    /\ \A p \in Proxies : esc'[p] = esc[p] + 1 =>
          \A q \in Proxies \ {p} : wopts'[q] = wopts[q]

\* C16, states: the options of a goroutine are those of the Forward, apart
\* from forceTCP after its own escalation in this iteration; a query starts
\* with the Forward's options in every goroutine
C16_OwnCopy ==
    /\ \A p \in Proxies :
          \/ wopts[p] = opts
          \/ esc[p] = 1 /\ wopts[p] = [opts EXCEPT !.forceTCP = TRUE]
    /\ pc = "start" => \A p \in Proxies : wopts[p] = opts

\* C16: every goroutine works on its own copy of the options.
C16_OptionsIsolation == [][C16_Step]_vars /\ []C16_OwnCopy

\* proxy 1 escalated to TCP and failed after that; proxy 2 made its Connect
\* after the escalation, in its second iteration, with the Forward's options
C16_Witness ==
    /\ ~opts.forceTCP /\ opts.preferUDP
    /\ esc[1] = 1 /\ wopts[1].forceTCP /\ last[1].err = UpstreamErr(1)
    /\ attempts[2] = 2 /\ wpc[2] = "connect" /\ wopts[2] = opts

(* ----- C17 ----- *)

\* what the goroutine of p can still do: three per counted attempt left, less
\* one once the iteration is at its Connect, less one more once forceTCP is set
Rank(p) ==
    3 * (maxfails - fails[p])
      + (IF wpc[p] = "loop" THEN 2 ELSE IF wopts[p].forceTCP THEN 0 ELSE 1)

\* a goroutine is between its start and its end
Running(p) == wpc[p] \in {"loop", "connect"}

\* C17, steps: every step of a goroutine that neither ends it nor is a
\* Connect that returned ErrCachedClosed brings it nearer to its end
C17_Step ==
    \A p \in Proxies :
        (/\ Running(p) /\ Running(p)'
         /\ <<wpc[p], fails[p], wopts[p], attempts[p], esc[p]>>' # <<wpc[p], fails[p], wopts[p], attempts[p], esc[p]>>) =>
            /\ Rank(p)' < Rank(p)
            /\ Rank(p)' >= 0

\* C17: when every Connect returns and none returns ErrCachedClosed for
\* ever, every goroutine that was started ends and every call of ServeDNS
\* returns (or hands the query to the next handler); a goroutine that has not
\* ended and makes no progress is one at a Connect that returns
\* ErrCachedClosed.
C17_Termination ==
    /\ [][C17_Step]_vars
    /\ [](pc \in {"done", "next"} => \A p \in Proxies : ~Running(p))
    /\ (pc \in {"start", "wait"}) ~> (pc \in {"done", "next"})

\* ServeDNS has returned after a goroutine went through ErrCachedClosed, an
\* escalation and two counted failures
C17_Witness ==
    /\ Returned /\ maxfails = 2
    /\ \E p \in live : fails[p] = 2 /\ attempts[p] = 2 /\ esc[p] = 1 /\ Done(p)
    /\ \E p \in live : Done(p) /\ pushed[p] = 1 /\ GotReply(p)

(* ----- C18 ----- *)

\* a collected response that is a reply of the upstream to the question
SuccessOutcome(r) == r.ret # NilMsg /\ r.ret.Rcode # "FORMERR" /\ r.upstreamErr = NoErr

\* a message without its answer section
Header(m) == [m EXCEPT !.Answer = <<>>]

\* the last place in resps that is in S
LastOf(S) == CHOOSE i \in S : \A j \in S : j <= i

\* C18 as claimed: the reply written is, but for its answer section, the
\* last collected reply of an upstream to the question.
C18_LastSuccess ==
    (Returned /\ Len(w) = 1) =>
        LET S == {i \in DOMAIN resps : SuccessOutcome(resps[i])}
        IN S # {} /\ Header(w[1]) = Header(resps[LastOf(S)].ret)

\* C18: the reply written is, but for its answer section, the last
\* collected reply of an upstream to the question that has at least one A or
\* AAAA record; its answer section is the combined list of these records.
C18_LastAddressSuccess ==
    (Returned /\ Len(w) = 1) =>
        LET S == {i \in DOMAIN resps :
                     /\ SuccessOutcome(resps[i])
                     /\ SelectSeq(resps[i].ret.Answer, IsAddressRR) # <<>>}
        IN /\ S # {}
           /\ Header(w[1]) = Header(resps[LastOf(S)].ret)
           /\ w[1].Answer # <<>>
           /\ \A i \in DOMAIN w[1].Answer : IsAddressRR(w[1].Answer[i])

\* the reply of proxy 1 with an address was collected first, a truncated
\* reply of proxy 2 without any address last: the reply written has the
\* header of the reply of proxy 1
C18_Witness ==
    /\ Returned /\ Len(w) = 1 /\ Len(resps) = 2
    /\ SuccessOutcome(resps[1]) /\ resps[1].ret.src = 1 /\ ~resps[1].ret.Truncated
    /\ SuccessOutcome(resps[2]) /\ resps[2].ret.src = 2 /\ resps[2].ret.Truncated
    /\ resps[2].ret.Answer = <<RR("CNAME")>>
    /\ w[1].src = 1 /\ ~w[1].Truncated

\* both replies have an address: the reply written has the header of the
\* one collected last and the records of both
C18_WitnessLast ==
    /\ Returned /\ Len(w) = 1 /\ Len(resps) = 2
    /\ resps[1].ret.src = 2 /\ resps[1].ret.Answer = <<RR("A")>>
    /\ resps[2].ret.src = 1 /\ resps[2].ret.Answer = <<RR("CNAME"), RR("AAAA")>>
    /\ w[1].src = 1 /\ w[1].Answer = <<RR("A"), RR("AAAA")>>

(* ----- C19 ----- *)

\* C19: the capacity of ch is the number of live proxies; every goroutine
\* has sent at most one response, and only a goroutine that has ended has
\* sent one; the responses sent are those queued or collected, never more
\* queued than the capacity; while a goroutine has not ended there is room in
\* ch for its response and ch is not closed, so that no send waits and none is
\* on a closed channel.
C19_NeverBlocks ==
    /\ pc \in {"wait", "done"} => chCap = Cardinality(live)
    /\ Len(ch) <= chCap
    /\ \A p \in Proxies : pushed[p] <= 1 /\ (pushed[p] = 1 => p \in live /\ Done(p))
    /\ Len(ch) + Len(resps) = Cardinality({p \in Proxies : pushed[p] = 1})
    /\ \A p \in Proxies : Running(p) => (p \in live /\ Len(ch) < chCap /\ ~chClosed)
    /\ chClosed => (ch = <<>> /\ \A p \in Proxies : ~Running(p))

\* both goroutines have sent their response and ServeDNS has not yet
\* collected: ch is full
C19_Witness ==
    /\ pc = "wait" /\ ~chClosed
    /\ chCap = 2 /\ Len(ch) = 2
    /\ \A p \in Proxies : Done(p) /\ pushed[p] = 1

\* one response is queued while the other goroutine is still at its Connect
C19_WitnessPartial ==
    /\ pc = "wait" /\ chCap = 2 /\ Len(ch) = 1
    /\ Done(1) /\ pushed[1] = 1 /\ wpc[2] = "connect"
====
